---- MODULE Spec2Model ----
(***************************************************************************)
(* A model of go-cfgreader (src/cfgreader.go, src/common.go): the format   *)
(* registry, the name deriver, the single-file loader, the directory       *)
(* scanner (flat and recursive) and the facade.                            *)
(*                                                                         *)
(* Strings are tuples of one-character strings, so that filepath.Ext,      *)
(* strings.ToLower, strings.LastIndex and slicing are computed and not     *)
(* assumed.  A path is a tuple of names (its components); filepath.Join is  *)
(* Append, filepath.Dir drops the last component, the empty path is <<>>.   *)
(* Symbolic links are outside the model: every node is a regular file or a *)
(* directory.                                                              *)
(***************************************************************************)
EXTENDS Integers, Sequences, FiniteSets, TLC

VARIABLES
    cr,        \* the ConfigReader: options, supportedExts, formats
    fs,        \* the filesystem: path -> node
    pc,        \* position of the running ReadDirMap call
    files,     \* scanFlat: the entries of os.ReadDir not yet visited
    todo,      \* scanRecursive: the paths filepath.WalkDir has still to visit
    configs,   \* ReadDirMap: the result mapping under construction
    stats,     \* ReadDirMap: the scanStats of the running call
    result,    \* what the last ReadDirMap call returned
    trace,     \* history: the events of the running scan, in traversal order
    last,      \* what the last ReadFile / Read call returned
    lastReg,   \* history: per extension, the formats of the latest call listing it
    detected   \* the last detectFormat call since the registry changed: file, format

vars == <<cr, fs, pc, files, todo, configs, stats, result, trace, last, lastReg, detected>>

None == "none"

(***************************************************************************)
(* Bounds of the model.                                                    *)
(***************************************************************************)
MaxFormats == 2     \* formats in one RegisterFormats call
MaxFiles == 3       \* regular files in the scanned tree
MaxSize == 2        \* largest configured maxFileSize; sizes go one beyond

(***************************************************************************)
(* Strings.                                                                *)
(***************************************************************************)
Max(S) == CHOOSE x \in S : \A y \in S : y <= x

\* strings.ToLower, on the letters the model uses
ToLowerChar(c) ==
    CASE c = "A" -> "a"
      [] c = "Y" -> "y"
      [] c = "M" -> "m"
      [] c = "L" -> "l"
      [] OTHER -> c

ToLower(s) == [i \in 1..Len(s) |-> ToLowerChar(s[i])]

\* the positions (1-based) of "." in s
DotIdx(s) == {i \in 1..Len(s) : s[i] = "."}

\* filepath.Ext: the suffix beginning at the final dot of the final element;
\* empty if there is no dot.  Names hold no path separator.
Ext(path) ==
    IF DotIdx(path) = {} THEN <<>>
    ELSE SubSeq(path, Max(DotIdx(path)), Len(path))

\* strings.LastIndex(s, "."): 0-based, -1 when absent
LastIndex(s) == IF DotIdx(s) = {} THEN -1 ELSE Max(DotIdx(s)) - 1

\* baseName
baseName(filename) ==
    LET lastDotIndex == LastIndex(filename)
    IN  IF lastDotIndex # -1 /\ lastDotIndex # 0
        THEN SubSeq(filename, 1, lastDotIndex)
        ELSE filename

\* the names and extensions of the model
eYaml == <<".", "y", "a", "m", "l">>
eYAML == <<".", "Y", "A", "M", "L">>
eYml  == <<".", "y", "m", "l">>
eJson == <<".", "j", "s", "o", "n">>
eToml == <<".", "t", "o", "m", "l">>
eTxt  == <<".", "t", "x", "t">>

(***************************************************************************)
(* The format registry.                                                    *)
(***************************************************************************)
FormatUnknown == 0
FormatYAML == 1
FormatJSON == 2
DefaultFormatsCount == 3

DefaultFormats ==
    (FormatUnknown :> [Name |-> "unknown", Extensions |-> << <<>> >>, Unmarshal |-> None])
 @@ (FormatYAML :> [Name |-> "yaml", Extensions |-> <<eYaml, eYml>>, Unmarshal |-> "yaml.Unmarshal"])
 @@ (FormatJSON :> [Name |-> "json", Extensions |-> <<eJson>>, Unmarshal |-> "json.Unmarshal"])

Range(f) == {f[x] : x \in DOMAIN f}

\* the lower-cased extensions a FormatData lists
LowerExts(formatData) == {ToLower(e) : e \in Range(formatData.Extensions)}

\* the keys one RegisterFormats call writes
RegisteredKeys(formats) == UNION {LowerExts(formats[id]) : id \in DOMAIN formats}

\* the formats of the call that list the key
Listers(formats, key) == {id \in DOMAIN formats : key \in LowerExts(formats[id])}

\* the outcomes of the nested range loops: Go ranges over the map in an
\* unspecified order, so a key listed by several formats of one call ends
\* with any of them
OwnerChoices(formats) ==
    {o \in [RegisteredKeys(formats) -> DOMAIN formats] :
        \A key \in RegisteredKeys(formats) : o[key] \in Listers(formats, key)}

\* a faulty variant of Registered: the extension is stored as written, not lower-cased
RegisteredNoLower(c, formats, owner) ==
    LET raw == UNION {Range(formats[id].Extensions) : id \in DOMAIN formats}
        rawOwner == [e \in raw |-> owner[ToLower(e)]]
    IN  [c EXCEPT !.supportedExts = rawOwner @@ c.supportedExts,
                  !.formats = formats @@ c.formats]

\* the reader after RegisterFormats(formats), the loops having ended in owner
Registered(c, formats, owner) ==
    [c EXCEPT !.supportedExts = owner @@ c.supportedExts,
              !.formats = formats @@ c.formats]

\* detectFormat
detectFormat(c, filename) ==
    LET ext == ToLower(Ext(filename))
    IN  IF ext \in DOMAIN c.supportedExts THEN c.supportedExts[ext]
        ELSE FormatUnknown

\* NewConfigReader with the options applied
NewConfigReader(strict, recursive, maxSize, defaultPath) ==
    LET empty == [defaultPath |-> <<>>, maxFileSize |-> 0, strictMode |-> FALSE,
                  recursive |-> FALSE, supportedExts |-> <<>>, formats |-> <<>>]
        reg == Registered(empty, DefaultFormats,
                          CHOOSE o \in OwnerChoices(DefaultFormats) : TRUE)
    IN  [reg EXCEPT !.strictMode = strict, !.recursive = recursive,
                    !.maxFileSize = maxSize, !.defaultPath = defaultPath]

(***************************************************************************)
(* The filesystem.  A file node carries what the loader can observe of it: *)
(* whether stat/lstat of it succeeds, its reported size, whether its bytes *)
(* can be read and whether they deserialize.  A directory node carries     *)
(* whether os.ReadDir of it succeeds, and whether a failing os.ReadDir     *)
(* still returns the entries it read (os.ReadDir returns them along with   *)
(* the error).                                                             *)
(***************************************************************************)
FileNode(infoOk, size, readOk, parseOk) ==
    [isDir |-> FALSE, infoOk |-> infoOk, size |-> size,
     readOk |-> readOk, parseOk |-> parseOk]

DirNode(listOk, partial) ==
    [isDir |-> TRUE, listOk |-> listOk, partial |-> partial]

Join(dir, name) == Append(dir, name)
Dir(path) == SubSeq(path, 1, Len(path) - 1)
Base(path) == path[Len(path)]

\* os.Stat succeeds
StatOk(f, path) == path \in DOMAIN f /\ (f[path].isDir \/ f[path].infoOk)

\* the fs.FileInfo of a path
Info(f, path) == [name |-> Base(path), isDir |-> f[path].isDir,
                  size |-> IF f[path].isDir THEN 0 ELSE f[path].size]

(***************************************************************************)
(* The single-file loader.                                                 *)
(***************************************************************************)
\* The deserialized value: which file it came from and which function made it.
Value(c, fullPath, format) == [file |-> fullPath, by |-> c.formats[format].Unmarshal]

\* the nil *T
NilCfg == [file |-> <<>>, by |-> None]

\* readAndParseFile: read tells whether os.ReadFile was called, unmarshal
\* whether the format's Unmarshal was
readAndParseFile(c, f, fullPath, format) ==
    IF ~f[fullPath].readOk
    THEN [err |-> "ReadFailed", value |-> NilCfg, read |-> TRUE, unmarshal |-> FALSE]
    ELSE IF format \notin DOMAIN c.formats
    THEN [err |-> "NoRegisteredFormat", value |-> NilCfg, read |-> TRUE, unmarshal |-> FALSE]
    ELSE IF ~f[fullPath].parseOk
    THEN [err |-> "ParseError", value |-> NilCfg, read |-> TRUE, unmarshal |-> TRUE]
    ELSE [err |-> None, value |-> Value(c, fullPath, format),
          read |-> TRUE, unmarshal |-> TRUE]

\* a faulty variant of processFile: the format is detected before the size is checked
processFileFormatFirst(c, f, fullPath, info) ==
    LET filename == info.name
        format == detectFormat(c, info.name)
        quiet == [read |-> FALSE, unmarshal |-> FALSE]
    IN  IF info.isDir
        THEN [cfg |-> NilCfg, name |-> baseName(filename), err |-> "IsDirectory"] @@ quiet
        ELSE IF format = FormatUnknown
        THEN [cfg |-> NilCfg, name |-> baseName(filename), err |-> "UnsupportedFormat"] @@ quiet
        ELSE IF info.size > c.maxFileSize
        THEN [cfg |-> NilCfg, name |-> baseName(filename), err |-> "TooLarge"] @@ quiet
        ELSE LET r == readAndParseFile(c, f, fullPath, format)
             IN  IF r.err # None
                 THEN [cfg |-> NilCfg, name |-> <<>>, err |-> r.err,
                       read |-> r.read, unmarshal |-> r.unmarshal]
                 ELSE [cfg |-> r.value, name |-> baseName(filename), err |-> None,
                       read |-> r.read, unmarshal |-> r.unmarshal]

\* processFile: the value, the logical name and the error; read and unmarshal
\* tell whether os.ReadFile and the deserializer were called
processFile(c, f, fullPath, info) ==
    LET filename == info.name
        quiet == [read |-> FALSE, unmarshal |-> FALSE]
    IN  IF info.isDir
        THEN [cfg |-> NilCfg, name |-> baseName(filename), err |-> "IsDirectory"] @@ quiet
        ELSE IF info.size > c.maxFileSize
        THEN [cfg |-> NilCfg, name |-> baseName(filename), err |-> "TooLarge"] @@ quiet
        ELSE LET format == detectFormat(c, info.name)
             IN  IF format = FormatUnknown
                 THEN [cfg |-> NilCfg, name |-> baseName(filename),
                       err |-> "UnsupportedFormat"] @@ quiet
                 ELSE LET r == readAndParseFile(c, f, fullPath, format)
                      IN  IF r.err # None
                          THEN [cfg |-> NilCfg, name |-> <<>>, err |-> r.err,
                                read |-> r.read, unmarshal |-> r.unmarshal]
                          ELSE [cfg |-> r.value, name |-> baseName(filename),
                                err |-> None,
                                read |-> r.read, unmarshal |-> r.unmarshal]

\* a faulty variant of ReadFile: outside strict mode a loader failure is swallowed
ReadFileLenient(c, f, filePath) ==
    LET path == IF filePath = <<>> THEN c.defaultPath ELSE filePath
        quiet == [read |-> FALSE, unmarshal |-> FALSE]
    IN  IF ~StatOk(f, path)
        THEN [cfg |-> NilCfg, err |-> "PathInaccessible", cause |-> None] @@ quiet
        ELSE IF f[path].isDir
        THEN [cfg |-> NilCfg, err |-> "IsDirectory", cause |-> None] @@ quiet
        ELSE LET r == processFile(c, f, path, Info(f, path))
             IN  IF r.err # None /\ c.strictMode
                 THEN [cfg |-> NilCfg, err |-> "ProcessFailed", cause |-> r.err,
                       read |-> r.read, unmarshal |-> r.unmarshal]
                 ELSE [cfg |-> r.cfg, err |-> None, cause |-> None,
                       read |-> r.read, unmarshal |-> r.unmarshal]

\* ReadFile: err is the error returned, cause the loader's error it wraps
ReadFile(c, f, filePath) ==
    LET path == IF filePath = <<>> THEN c.defaultPath ELSE filePath
        quiet == [read |-> FALSE, unmarshal |-> FALSE]
    IN  IF ~StatOk(f, path)
        THEN [cfg |-> NilCfg, err |-> "PathInaccessible", cause |-> None] @@ quiet
        ELSE IF f[path].isDir
        THEN [cfg |-> NilCfg, err |-> "IsDirectory", cause |-> None] @@ quiet
        ELSE LET r == processFile(c, f, path, Info(f, path))
             IN  IF r.err # None
                 THEN [cfg |-> NilCfg, err |-> "ProcessFailed", cause |-> r.err,
                       read |-> r.read, unmarshal |-> r.unmarshal]
                 ELSE [cfg |-> r.cfg, err |-> None, cause |-> None,
                       read |-> r.read, unmarshal |-> r.unmarshal]

(***************************************************************************)
(* Values of the variables a specification does not use.                   *)
(***************************************************************************)
NoStats == [processed |-> 0, skipped |-> 0, errors |-> 0]

NoErr == [kind |-> None, at |-> <<>>]

\* no ReadDirMap call has returned
NoResult == [returned |-> FALSE, dir |-> <<>>, hasMap |-> FALSE, configs |-> <<>>, err |-> NoErr]

\* no ReadFile call has been made
NoCall == [called |-> FALSE, arg |-> <<>>, path |-> <<>>,
           out |-> [cfg |-> NilCfg, err |-> None, cause |-> None,
                    read |-> FALSE, unmarshal |-> FALSE]]

\* no detectFormat call has been made on the registry as it is
NoDetect == [file |-> <<>>, format |-> FormatUnknown]

ScanIdle ==
    /\ pc = "idle" /\ files = <<>> /\ todo = <<>> /\ configs = <<>>
    /\ stats = NoStats /\ result = NoResult /\ trace = <<>>

ScanVars == <<pc, files, todo, configs, stats, result, trace>>

nD == <<"d">>
Root == <<nD>>

(***************************************************************************)
(* SpecReg: a reader is constructed, then formats are registered and file  *)
(* names detected in any order.                                            *)
(***************************************************************************)
\* the Extensions lists callers register
ExtMenu == { <<eYAML>>, <<eYaml, eToml>> }

\* the identifiers callers register under: an existing one, the sentinel's, a new one
FormatIDs == {FormatUnknown, FormatYAML, DefaultFormatsCount}

CustomData(exts) ==
    [Name |-> "custom", Extensions |-> exts, Unmarshal |-> "custom.Unmarshal"]

RegInputs ==
    UNION {[D -> {CustomData(e) : e \in ExtMenu}] :
             D \in {D \in SUBSET FormatIDs : D # {} /\ Cardinality(D) <= MaxFormats}}

nA == <<"a">>
DetectExts == {<<>>, eYaml, eYAML, eToml}
DetectNames == {b \o e : b \in {<<>>, nA}, e \in DetectExts} \ {<<>>}

InitReg ==
    /\ cr = NewConfigReader(FALSE, FALSE, 1, Root)
    /\ fs = (Root :> DirNode(TRUE, FALSE))
    /\ ScanIdle
    /\ last = NoCall
    /\ lastReg = [key \in RegisteredKeys(DefaultFormats) |-> Listers(DefaultFormats, key)]
    /\ detected = NoDetect

RegisterFormats(formats) ==
    /\ \E owner \in OwnerChoices(formats) : cr' = Registered(cr, formats, owner)
    /\ lastReg' = [key \in RegisteredKeys(formats) |-> Listers(formats, key)] @@ lastReg
    /\ detected' = NoDetect
    /\ UNCHANGED <<fs, ScanVars, last>>

DetectFormat(filename) ==
    /\ detected' = [file |-> filename, format |-> detectFormat(cr, filename)]
    /\ UNCHANGED <<cr, fs, ScanVars, last, lastReg>>

NextReg ==
    \/ \E formats \in RegInputs : RegisterFormats(formats)
    \/ \E filename \in DetectNames : DetectFormat(filename)

SpecReg == InitReg /\ [][NextReg]_vars

(***************************************************************************)
(* SpecFile: a reader with any options over a directory holding one file;  *)
(* ReadFile is called on the file, the directory, a missing path or the    *)
(* empty path.                                                             *)
(***************************************************************************)
FileNames == {nA \o eYaml, nA \o eYAML, nA \o eJson, nA \o eTxt, eYaml, nA}

Sizes == 0..(MaxSize + 1)

Missing == Join(Root, <<"x">>)

InitFile ==
    /\ \E name \in FileNames, infoOk \in BOOLEAN, size \in Sizes,
          readOk \in BOOLEAN, parseOk \in BOOLEAN :
          fs = (Root :> DirNode(TRUE, FALSE))
            @@ (Join(Root, name) :> FileNode(infoOk, size, readOk, parseOk))
    /\ \E strict \in BOOLEAN, recursive \in BOOLEAN, maxSize \in 0..MaxSize,
          defaultPath \in DOMAIN fs :
          cr = NewConfigReader(strict, recursive, maxSize, defaultPath)
    /\ ScanIdle
    /\ last = NoCall
    /\ lastReg = <<>>
    /\ detected = NoDetect

ReadFileCall(filePath) ==
    /\ last' = [called |-> TRUE, arg |-> filePath,
                path |-> IF filePath = <<>> THEN cr.defaultPath ELSE filePath,
                out |-> ReadFile(cr, fs, filePath)]
    /\ UNCHANGED <<cr, fs, ScanVars, lastReg, detected>>

NextFile == \E filePath \in DOMAIN fs \cup {<<>>, Missing} : ReadFileCall(filePath)

SpecFile == InitFile /\ [][NextFile]_vars

(***************************************************************************)
(* The directory scanner.                                                  *)
(***************************************************************************)
\* the characters of the model in byte order
Alphabet == <<".", "A", "L", "M", "Y", "a", "b", "c", "d", "j", "l", "m",
              "n", "o", "s", "t", "x", "y">>

Code(c) == CHOOSE i \in 1..Len(Alphabet) : Alphabet[i] = c

\* s sorts before t by bytes
Less(s, t) ==
    \E i \in 1..(Len(s) + 1) :
        /\ \A j \in 1..(i - 1) : j <= Len(t) /\ s[j] = t[j]
        /\ \/ i = Len(s) + 1 /\ i <= Len(t)
           \/ i <= Len(s) /\ i <= Len(t) /\ Code(s[i]) < Code(t[i])

RECURSIVE SortedSeq(_)
SortedSeq(S) ==
    IF S = {} THEN <<>>
    ELSE LET m == CHOOSE x \in S : \A y \in S \ {x} : Less(x, y)
         IN  <<m>> \o SortedSeq(S \ {m})

Children(f, dir) == {p \in DOMAIN f : Len(p) = Len(dir) + 1 /\ Dir(p) = dir}

\* os.ReadDir: the entries sorted by filename; on failure, the entries read
\* before the error (here none or all) along with the error
ReadDir(f, dir) ==
    LET all == SortedSeq({Base(p) : p \in Children(f, dir)})
    IN  IF f[dir].listOk THEN [entries |-> all, err |-> FALSE]
        ELSE [entries |-> IF f[dir].partial THEN all ELSE <<>>, err |-> TRUE]

\* the full paths of a listing
Paths(dir, entries) == [i \in 1..Len(entries) |-> Join(dir, entries[i])]

\* a faulty variant of Failed: a failing entry is skipped in strict mode too
FailedNeverAborts(cfgs, st, kind, path, strict) ==
    [configs |-> cfgs,
     stats |-> [st EXCEPT !.errors = @ + 1, !.skipped = @ + 1],
     err |-> NoErr, out |-> "failed"]

\* a faulty variant of Failed: a failing entry is counted as an error only
FailedNoSkip(cfgs, st, kind, path, strict) ==
    IF strict
    THEN [configs |-> cfgs, stats |-> [st EXCEPT !.errors = @ + 1],
          err |-> [kind |-> kind, at |-> path], out |-> "failed"]
    ELSE [configs |-> cfgs, stats |-> [st EXCEPT !.errors = @ + 1],
          err |-> NoErr, out |-> "failed"]

\* the entry failed: counted, and in strict mode the error returned
Failed(cfgs, st, kind, path, strict) ==
    IF strict
    THEN [configs |-> cfgs, stats |-> [st EXCEPT !.errors = @ + 1],
          err |-> [kind |-> kind, at |-> path], out |-> "failed"]
    ELSE [configs |-> cfgs,
          stats |-> [st EXCEPT !.errors = @ + 1, !.skipped = @ + 1],
          err |-> NoErr, out |-> "failed"]

\* a faulty variant of processEntry: the first file of a name keeps it
processEntryKeepFirst(c, f, parentDir, filename, cfgs, st) ==
    LET fullPath == Join(parentDir, filename)
    IN  IF ~StatOk(f, fullPath)
        THEN Failed(cfgs, st, "InfoFailed", fullPath, c.strictMode)
        ELSE LET r == processFile(c, f, fullPath, Info(f, fullPath))
             IN  IF r.err # None
                 THEN Failed(cfgs, st, r.err, fullPath, c.strictMode)
                 ELSE IF r.cfg = NilCfg
                 THEN [configs |-> cfgs, stats |-> [st EXCEPT !.skipped = @ + 1],
                       err |-> NoErr, out |-> "empty"]
                 ELSE [configs |-> cfgs @@ (r.name :> r.cfg),
                       stats |-> [st EXCEPT !.processed = @ + 1],
                       err |-> NoErr,
                       out |-> IF r.name \in DOMAIN cfgs THEN "overwrote" ELSE "stored"]

\* processEntry: the mapping and statistics it leaves, the error it returns,
\* and what became of the entry
processEntry(c, f, parentDir, filename, cfgs, st) ==
    LET fullPath == Join(parentDir, filename)
    IN  IF ~StatOk(f, fullPath)
        THEN Failed(cfgs, st, "InfoFailed", fullPath, c.strictMode)
        ELSE LET r == processFile(c, f, fullPath, Info(f, fullPath))
             IN  IF r.err # None
                 THEN Failed(cfgs, st, r.err, fullPath, c.strictMode)
                 ELSE IF r.cfg = NilCfg
                 THEN [configs |-> cfgs, stats |-> [st EXCEPT !.skipped = @ + 1],
                       err |-> NoErr, out |-> "empty"]
                 ELSE IF r.name \in DOMAIN cfgs /\ c.strictMode
                 THEN [configs |-> cfgs, stats |-> st,
                       err |-> [kind |-> "DuplicateName", at |-> fullPath],
                       out |-> "duplicate"]
                 ELSE [configs |-> (r.name :> r.cfg) @@ cfgs,
                       stats |-> [st EXCEPT !.processed = @ + 1],
                       err |-> NoErr,
                       out |-> IF r.name \in DOMAIN cfgs THEN "overwrote" ELSE "stored"]

\* a faulty variant of IsDirEntry: no entry is taken for a directory
IsDirEntryNever(f, path) == FALSE

\* file.IsDir() of scanFlat, d.IsDir() of scanRecursive
IsDirEntry(f, path) == f[path].isDir

Event(kind, path, out) == [kind |-> kind, path |-> path, out |-> out]

\* ReadDirMap returns (nil, err)
Abort(dir, err) ==
    /\ pc' = "done"
    /\ result' = [returned |-> TRUE, dir |-> dir, hasMap |-> FALSE,
                  configs |-> <<>>, err |-> err]

\* ReadDirMap up to the start of the scan: the path is resolved and checked,
\* the mapping and statistics are made, and the scan begins (os.ReadDir for
\* the flat scan, the root as the first path of filepath.WalkDir)
ReadDirMapCall(dirPath) ==
    /\ pc \in {"idle", "done"}
    /\ LET path == IF dirPath = <<>> THEN cr.defaultPath ELSE dirPath
           fresh == /\ configs' = <<>> /\ stats' = NoStats /\ trace' = <<>>
                    /\ files' = <<>> /\ todo' = <<>>
           begun == result' = [NoResult EXCEPT !.dir = path]
       IN  IF ~StatOk(fs, path)
           THEN Abort(path, [kind |-> "PathInaccessible", at |-> path]) /\ fresh
           ELSE IF ~fs[path].isDir
           THEN Abort(path, [kind |-> "NotADirectory", at |-> path]) /\ fresh
           ELSE IF cr.recursive
           THEN /\ pc' = "walk" /\ todo' = <<path>> /\ begun
                /\ configs' = <<>> /\ stats' = NoStats /\ trace' = <<>>
                /\ files' = <<>>
           ELSE LET l == ReadDir(fs, path)
                IN  IF l.err
                    THEN Abort(path, [kind |-> "ReadDirFailed", at |-> path]) /\ fresh
                    ELSE /\ pc' = "flat" /\ files' = Paths(path, l.entries) /\ begun
                         /\ configs' = <<>> /\ stats' = NoStats /\ trace' = <<>>
                         /\ todo' = <<>>
    /\ UNCHANGED <<cr, fs, last, lastReg, detected>>

\* one iteration of scanFlat's loop
ScanFlatStep ==
    /\ pc = "flat" /\ files # <<>>
    /\ LET path == Head(files)
       IN  IF IsDirEntry(fs, path)
           THEN /\ stats' = [stats EXCEPT !.skipped = @ + 1]
                /\ trace' = Append(trace, Event("skipdir", path, "skipped"))
                /\ files' = Tail(files)
                /\ UNCHANGED <<pc, configs, result>>
           ELSE LET r == processEntry(cr, fs, Dir(path), Base(path), configs, stats)
                IN  /\ configs' = r.configs
                    /\ stats' = r.stats
                    /\ trace' = Append(trace, Event("entry", path, r.out))
                    /\ IF r.err # NoErr /\ cr.strictMode
                       THEN Abort(result.dir, r.err) /\ UNCHANGED files
                       ELSE files' = Tail(files) /\ UNCHANGED <<pc, result>>
    /\ UNCHANGED <<cr, fs, todo, last, lastReg, detected>>

\* one visit of filepath.WalkDir: the callback on the path, and for a
\* directory os.ReadDir, the callback again if that failed, and the entries
\* read put first in line
WalkStep ==
    /\ pc = "walk" /\ todo # <<>>
    /\ LET path == Head(todo)
       IN  IF IsDirEntry(fs, path)
           THEN LET l == ReadDir(fs, path)
                IN  IF l.err
                    THEN /\ trace' = Append(trace, Event("direrr", path, "failed"))
                         /\ IF cr.strictMode
                            THEN /\ Abort(result.dir, [kind |-> "WalkFailed", at |-> path])
                                 /\ UNCHANGED <<todo, stats>>
                            ELSE /\ stats' = [stats EXCEPT !.errors = @ + 1]
                                 /\ todo' = Paths(path, l.entries) \o Tail(todo)
                                 /\ UNCHANGED <<pc, result>>
                         /\ UNCHANGED configs
                    ELSE /\ todo' = Paths(path, l.entries) \o Tail(todo)
                         /\ UNCHANGED <<pc, result, configs, stats, trace>>
           ELSE LET r == processEntry(cr, fs, Dir(path), Base(path), configs, stats)
                IN  /\ configs' = r.configs
                    /\ stats' = r.stats
                    /\ trace' = Append(trace, Event("entry", path, r.out))
                    /\ IF r.err # NoErr
                       THEN Abort(result.dir, r.err) /\ UNCHANGED todo
                       ELSE todo' = Tail(todo) /\ UNCHANGED <<pc, result>>
    /\ UNCHANGED <<cr, fs, files, last, lastReg, detected>>

\* the scan is over without error: ReadDirMap returns the mapping
ReadDirMapReturn ==
    /\ \/ pc = "flat" /\ files = <<>>
       \/ pc = "walk" /\ todo = <<>>
    /\ pc' = "done"
    /\ result' = [returned |-> TRUE, dir |-> result.dir, hasMap |-> TRUE,
                  configs |-> configs, err |-> NoErr]
    /\ UNCHANGED <<cr, fs, files, todo, configs, stats, trace, last, lastReg, detected>>

(***************************************************************************)
(* SpecScan: a reader in either mode over a tree of at most MaxFiles files *)
(* in a root directory and one subdirectory; ReadDirMap is called.         *)
(***************************************************************************)
nB == <<"b">>
nC == <<"c">>
SubDir == Join(Root, nB)

Sound(max) == FileNode(TRUE, max, TRUE, TRUE)       \* of exactly the maximum size
NoInfo(max) == FileNode(FALSE, max, TRUE, TRUE)
TooBig(max) == FileNode(TRUE, max + 1, TRUE, TRUE)
Unreadable(max) == FileNode(TRUE, max, FALSE, TRUE)
Malformed(max) == FileNode(TRUE, max, TRUE, FALSE)

\* the files the tree may hold, each sound or with one of the defects listed
SlotConds(max) ==
    (Join(Root, nA \o eJson) :> {Sound(max), NoInfo(max), Malformed(max)})
 @@ (Join(Root, nA \o eYaml) :> {Sound(max), TooBig(max), Unreadable(max)})
 @@ (Join(Root, nC \o eTxt) :> {Sound(max), TooBig(max)})
 @@ (Join(SubDir, nA \o eYaml) :> {Sound(max), Malformed(max)})
 @@ (Join(SubDir, nB \o eYaml) :> {Sound(max), NoInfo(max)})

Slots == DOMAIN SlotConds(0)

\* a directory that can be listed, and one that cannot
RootConds == {DirNode(TRUE, FALSE), DirNode(FALSE, FALSE)}

SubConds == {DirNode(TRUE, FALSE), DirNode(FALSE, FALSE), DirNode(FALSE, TRUE)}

ScanMaxSize == 1

InitScan ==
    /\ \E F \in SUBSET Slots :
         /\ Cardinality(F) <= MaxFiles
         /\ \E nodes \in {n \in [F -> UNION Range(SlotConds(ScanMaxSize))] :
                             \A p \in F : n[p] \in SlotConds(ScanMaxSize)[p]},
               rootNode \in RootConds,
               subs \in {<<>>} \cup {(SubDir :> n) : n \in SubConds} :
               /\ (\E p \in F : Dir(p) = SubDir) => subs # <<>>
               /\ fs = (Root :> rootNode) @@ subs @@ nodes
    /\ \E strict \in BOOLEAN, recursive \in BOOLEAN :
          cr = NewConfigReader(strict, recursive, ScanMaxSize, Root)
    /\ ScanIdle
    /\ last = NoCall
    /\ lastReg = <<>>
    /\ detected = NoDetect

NextScan ==
    \/ \E dirPath \in (DOMAIN fs \ {SubDir}) \cup {<<>>, Missing} : ReadDirMapCall(dirPath)
    \/ ScanFlatStep
    \/ WalkStep
    \/ ReadDirMapReturn

SpecScan == InitScan /\ [][NextScan]_vars

(***************************************************************************)
(* Properties of the single-file loader and of ReadFile (SpecFile).        *)
(***************************************************************************)
\* the last ReadFile call reached the loader with a regular file
LoaderRan == last.called /\ StatOk(fs, last.path) /\ ~fs[last.path].isDir

\* C5: a regular file whose reported size exceeds maxFileSize is rejected with
\* TooLarge, whatever its extension and content, and neither os.ReadFile nor a
\* deserializer is called for it; a file of at most the maximum size is not
\* rejected as too large.
SizeCeiling ==
    LoaderRan =>
        /\ fs[last.path].size > cr.maxFileSize =>
              /\ last.out.err = "ProcessFailed" /\ last.out.cause = "TooLarge"
              /\ last.out.cfg = NilCfg
              /\ ~last.out.read /\ ~last.out.unmarshal
        /\ fs[last.path].size <= cr.maxFileSize => last.out.cause # "TooLarge"

\* an oversized file with an unregistered extension was rejected as too large
SizeCeilingWitness ==
    /\ LoaderRan
    /\ fs[last.path].size > cr.maxFileSize
    /\ Ext(Base(last.path)) = eTxt
    /\ fs[last.path].readOk /\ fs[last.path].parseOk
    /\ last.out.cause = "TooLarge"

\* C9: ReadFile returns a value or an error, never both and never neither;
\* PathInaccessible when stat of the resolved path fails, IsDirectory when it
\* is a directory, the loader's error wrapped otherwise; and the outcome is
\* the same under every setting of the strict and recursive flags.
ReadFilePropagates ==
    last.called =>
        /\ last.path = (IF last.arg = <<>> THEN cr.defaultPath ELSE last.arg)
        /\ (last.out.err = None) # (last.out.cfg = NilCfg)
        /\ ~StatOk(fs, last.path) => last.out.err = "PathInaccessible"
        /\ StatOk(fs, last.path) /\ fs[last.path].isDir => last.out.err = "IsDirectory"
        /\ LoaderRan =>
              LET r == processFile(cr, fs, last.path, Info(fs, last.path))
              IN  IF r.err # None
                  THEN last.out.err = "ProcessFailed" /\ last.out.cause = r.err
                  ELSE last.out.err = None /\ last.out.cfg = r.cfg
        /\ \A strict \in BOOLEAN, recursive \in BOOLEAN :
              ReadFile([cr EXCEPT !.strictMode = strict, !.recursive = recursive],
                       fs, last.arg) = last.out

\* a lenient reader, asked for a malformed file through its default path,
\* returned the parse error
ReadFilePropagatesWitness ==
    /\ LoaderRan /\ last.arg = <<>>
    /\ ~cr.strictMode
    /\ last.out.err = "ProcessFailed" /\ last.out.cause = "ParseError"

(***************************************************************************)
(* Properties of the format registry (SpecReg).                            *)
(***************************************************************************)
\* the owner of an extension key
Owner(key) ==
    IF key \in DOMAIN cr.supportedExts THEN cr.supportedExts[key] ELSE FormatUnknown

\* the extension of a file name by the rule of the specification: none when
\* the name has no dot or its last dot is its first character
RuleExt(filename) ==
    IF LastIndex(filename) \in {-1, 0} THEN <<>>
    ELSE ToLower(SubSeq(filename, LastIndex(filename) + 1, Len(filename)))

\* C6: detect looks up the lower-cased final extension, a name with no dot or
\* with its last dot at index 0 having none; and detect sees an extension
\* exactly when baseName strips one.
DetectExtensionRule ==
    detected.file # <<>> =>
        /\ detected.format = Owner(RuleExt(detected.file))
        /\ (Ext(detected.file) # <<>>) <=> (baseName(detected.file) # detected.file)

\* the file name ends in the extension key, in any letter case
Carries(filename, key) ==
    IF key = <<>> THEN DotIdx(filename) = {}
    ELSE /\ Len(filename) >= Len(key)
         /\ ToLower(SubSeq(filename, Len(filename) - Len(key) + 1, Len(filename))) = key

\* C7: every extension has one owner, keyed case-insensitively; the owner is a
\* format of the most recent RegisterFormats call that listed the extension
\* in any letter case; detect on a file name carrying the extension in any
\* letter case returns that owner, so the letter case of a name never matters.
ExtensionOwnership ==
    /\ DOMAIN cr.supportedExts = DOMAIN lastReg
    /\ \A key \in DOMAIN cr.supportedExts :
          /\ key = ToLower(key)
          /\ cr.supportedExts[key] \in lastReg[key]
          /\ detected.file # <<>> /\ Carries(detected.file, key) =>
                detected.format = cr.supportedExts[key]
    /\ detectFormat(cr, <<"A">> \o eYAML) = detectFormat(cr, nA \o eYaml)

\* .YAML was registered for a new format, overwriting yaml's ownership, and
\* an upper-case file name was detected as the new owner's
ExtensionOwnershipWitness ==
    /\ eYaml \in DOMAIN lastReg /\ lastReg[eYaml] = {DefaultFormatsCount}
    /\ detected.file = nA \o eYAML
    /\ detected.format = DefaultFormatsCount

\* C8: the unknown format is in the catalog and owns no non-empty extension.
UnknownIsSentinel ==
    /\ FormatUnknown \in DOMAIN cr.formats
    /\ \A key \in DOMAIN cr.supportedExts :
          cr.supportedExts[key] = FormatUnknown => key = <<>>

(***************************************************************************)
(* Properties of the directory scanner (SpecScan).  They compare what a    *)
(* ReadDirMap call returned with the tree it scanned.                      *)
(***************************************************************************)
\* the call returned after its scan had started
Scanned ==
    /\ result.returned
    /\ result.err.kind \notin {"PathInaccessible", "NotADirectory", "ReadDirFailed"}

\* a file that loads: metadata available, not too large, a registered
\* extension, readable, well-formed
Loadable(path) ==
    /\ fs[path].infoOk
    /\ fs[path].size <= cr.maxFileSize
    /\ detectFormat(cr, Base(path)) # FormatUnknown
    /\ fs[path].readOk
    /\ fs[path].parseOk

LogicalName(path) == baseName(Base(path))

RECURSIVE Flatten(_)
Flatten(seqs) == IF seqs = <<>> THEN <<>> ELSE Head(seqs) \o Flatten(Tail(seqs))

\* what a walk from path meets, in traversal order: the files, and the
\* directories that cannot be read
RECURSIVE WalkEvents(_)
WalkEvents(path) ==
    IF fs[path].isDir
    THEN LET l == ReadDir(fs, path)
         IN  (IF l.err THEN <<[kind |-> "direrr", path |-> path]>> ELSE <<>>)
             \o Flatten([i \in 1..Len(l.entries) |->
                            WalkEvents(Join(path, l.entries[i]))])
    ELSE <<[kind |-> "entry", path |-> path]>>

\* what the scan of dir meets in traversal order
Expected(dir) ==
    IF cr.recursive
    THEN WalkEvents(dir)
    ELSE LET l == ReadDir(fs, dir)
         IN  SelectSeq([i \in 1..Len(l.entries) |->
                           [kind |-> "entry", path |-> Join(dir, l.entries[i])]],
                       LAMBDA e : ~fs[e.path].isDir)

IsEntry(E, i) == E[i].kind = "entry"
Loads(E, i) == IsEntry(E, i) /\ Loadable(E[i].path)
Fails(E, i) == IsEntry(E, i) /\ ~Loadable(E[i].path)

\* the i-th event is a file that loads under the name of an earlier one that loaded
Duplicates(E, i) ==
    /\ Loads(E, i)
    /\ \E j \in 1..(i - 1) : Loads(E, j) /\ LogicalName(E[j].path) = LogicalName(E[i].path)

\* the mapping of the files that load, the last in traversal order winning a name
LoadedMap(E) ==
    LET loaded == {i \in 1..Len(E) : Loads(E, i)}
        names == {LogicalName(E[i].path) : i \in loaded}
        lastOf(n) == Max({i \in loaded : LogicalName(E[i].path) = n})
    IN  [n \in names |->
            Value(cr, E[lastOf(n)].path, detectFormat(cr, Base(E[lastOf(n)].path)))]

\* the events of the running scan without the directories the flat scan skipped
Visited == SelectSeq(trace, LAMBDA e : e.kind # "skipdir")
VisitedPaths == [i \in 1..Len(Visited) |-> Visited[i].path]
EventPaths(E, k) == [i \in 1..k |-> E[i].path]

\* the error the scan reports for the i-th event
ErrorOf(E, i) ==
    LET path == E[i].path
    IN  [at |-> path,
         kind |-> IF E[i].kind = "direrr" THEN "WalkFailed"
                  ELSE IF ~fs[path].infoOk THEN "InfoFailed"
                  ELSE IF fs[path].size > cr.maxFileSize THEN "TooLarge"
                  ELSE IF detectFormat(cr, Base(path)) = FormatUnknown
                  THEN "UnsupportedFormat"
                  ELSE IF ~fs[path].readOk THEN "ReadFailed"
                  ELSE IF ~fs[path].parseOk THEN "ParseError"
                  ELSE "DuplicateName"]

\* the strict scan stopped at the k-th event with its error, nothing after
\* it was visited and nothing of it or after it was stored
StoppedAt(E, k) ==
    /\ ~result.hasMap
    /\ result.err = ErrorOf(E, k)
    /\ VisitedPaths = EventPaths(E, k)
    /\ configs = LoadedMap(SubSeq(E, 1, k - 1))

\* the lenient scan returned the mapping of the files that load
ReturnedLoaded(E) ==
    /\ result.hasMap /\ result.err = NoErr
    /\ result.configs = LoadedMap(E)
    /\ VisitedPaths = EventPaths(E, Len(E))

First(S) == CHOOSE x \in S : \A y \in S : x <= y

\* C1 as stated: a strict scan stops at the first failing entry; a lenient
\* scan returns the files that load and counts the failing entries as errors.
FirstFailingEntryWins ==
    Scanned =>
        LET E == Expected(result.dir)
            failing == {i \in 1..Len(E) : Fails(E, i)}
        IN  IF cr.strictMode
            THEN failing # {} => StoppedAt(E, First(failing))
            ELSE ReturnedLoaded(E) /\ stats.errors = Cardinality(failing)

\* C1 as amended: a strict scan stops at the first event that is a failing
\* entry, a duplicate of a stored name or an unreadable directory; a lenient
\* scan returns the files that load, and its errors count the failing entries
\* and the unreadable directories.
FirstErrorWins ==
    Scanned =>
        LET E == Expected(result.dir)
            failing == {i \in 1..Len(E) : Fails(E, i)}
            unread == {i \in 1..Len(E) : E[i].kind = "direrr"}
            bad == failing \cup unread \cup {i \in 1..Len(E) : Duplicates(E, i)}
        IN  IF cr.strictMode
            THEN IF bad # {} THEN StoppedAt(E, First(bad))
                 ELSE ReturnedLoaded(E)
            ELSE /\ ReturnedLoaded(E)
                 /\ stats.errors = Cardinality(failing) + Cardinality(unread)

\* a lenient scan of one valid and one malformed file returned the valid one
\* and counted one error
FirstErrorWinsWitness ==
    /\ Scanned /\ ~cr.strictMode
    /\ Len(Expected(result.dir)) = 2
    /\ \E p \in DOMAIN fs : ~fs[p].isDir /\ ~fs[p].parseOk
    /\ Cardinality(DOMAIN result.configs) = 1
    /\ stats.errors = 1

\* C2: when two files that load derive the same logical name, a lenient scan
\* ends with that name mapped to the one processed last, and a strict scan
\* that reaches the second of them stops there with DuplicateName and no map.
DuplicateResolution ==
    Scanned =>
        LET E == Expected(result.dir)
            dups == {i \in 1..Len(E) : Duplicates(E, i)}
            bad == dups \cup {i \in 1..Len(E) : ~Loads(E, i)}
            lastOf(n) == Max({i \in 1..Len(E) : Loads(E, i) /\ LogicalName(E[i].path) = n})
        IN  dups # {} =>
              IF cr.strictMode
              THEN First(bad) \in dups =>
                     /\ ~result.hasMap
                     /\ result.err = [kind |-> "DuplicateName", at |-> E[First(dups)].path]
                     /\ Visited[Len(Visited)].path = E[First(dups)].path
              ELSE /\ result.hasMap /\ result.err = NoErr
                   /\ \A i \in dups :
                        LET n == LogicalName(E[i].path)
                        IN  /\ n \in DOMAIN result.configs
                            /\ result.configs[n].file = E[lastOf(n)].path

\* a lenient recursive scan met a.yaml in the root and in the subdirectory,
\* both loading, and returned the subdirectory's under the name a
DuplicateResolutionWitness ==
    /\ Scanned /\ ~cr.strictMode /\ cr.recursive
    /\ Join(Root, nA \o eYaml) \in DOMAIN fs /\ Loadable(Join(Root, nA \o eYaml))
    /\ nA \in DOMAIN result.configs
    /\ result.configs[nA].file = Join(SubDir, nA \o eYaml)

\* a directory could not be read during the scan
DirectoryFailure ==
    IF cr.recursive THEN \E i \in 1..Len(trace) : trace[i].kind = "direrr"
    ELSE ~fs[result.dir].listOk

\* C3: once the path is known to be a directory, a failure to read a
\* directory aborts a strict scan with the error and is counted by a lenient
\* scan, which completes without error; in the flat scan as in the recursive.
DirectoryErrorSplit ==
    /\ result.returned
    /\ result.err.kind \notin {"PathInaccessible", "NotADirectory"}
    /\ DirectoryFailure
    => IF cr.strictMode
       THEN ~result.hasMap /\ result.err # NoErr
       ELSE result.hasMap /\ result.err = NoErr /\ stats.errors >= 1

AllFiles == {p \in DOMAIN fs : ~fs[p].isDir}

\* every directory can be read, every file loads, no two files share a name
CleanTree ==
    /\ \A p \in DOMAIN fs : fs[p].isDir => fs[p].listOk
    /\ \A p \in AllFiles : Loadable(p)
    /\ \A p, q \in AllFiles : LogicalName(p) = LogicalName(q) => p = q

MapOf(paths) ==
    [n \in {LogicalName(p) : p \in paths} |->
        LET p == CHOOSE q \in paths : LogicalName(q) = n
        IN  Value(cr, p, detectFormat(cr, Base(p)))]

\* C4: over a tree of loadable files of distinct names, the flat scan returns
\* the files that are immediate children of the root, each subdirectory
\* counted as skipped and not entered; the recursive scan returns every file.
FlatVersusRecursive ==
    Scanned /\ CleanTree =>
        LET children == Children(fs, result.dir)
            want == IF cr.recursive THEN AllFiles ELSE children \cap AllFiles
        IN  /\ result.hasMap /\ result.err = NoErr
            /\ result.configs = MapOf(want)
            /\ stats.processed = Cardinality(want)
            /\ stats.errors = 0
            /\ ~cr.recursive =>
                  /\ stats.skipped = Cardinality(children \ AllFiles)
                  /\ \A i \in 1..Len(trace) : Dir(trace[i].path) = result.dir

\* a flat scan of a root holding a.yaml and a subdirectory holding b.yaml
\* returned a alone and counted the subdirectory as skipped
FlatVersusRecursiveWitness ==
    /\ Scanned /\ CleanTree /\ ~cr.recursive
    /\ AllFiles = {Join(Root, nA \o eYaml), Join(SubDir, nB \o eYaml)}
    /\ DOMAIN result.configs = {nA}
    /\ stats.skipped = 1

Overwrites == Cardinality({i \in 1..Len(trace) : trace[i].out = "overwrote"})
Unread == Cardinality({i \in 1..Len(trace) : trace[i].kind = "direrr"})

\* what C10 says of a lenient flat scan: every listed entry is counted once,
\* as processed or as skipped; an error is also a skip; the mapping has one
\* entry per processed file less the overwrites
FlatConservation ==
    /\ stats.processed + stats.skipped = Len(ReadDir(fs, result.dir).entries)
    /\ stats.errors <= stats.skipped
    /\ Cardinality(DOMAIN result.configs) = stats.processed - Overwrites
    /\ Cardinality(DOMAIN result.configs) <= stats.processed

\* C10 as stated: the conservation of the flat scan, and errors <= skipped
\* for the lenient recursive scan.
StatsConservation ==
    result.returned /\ result.hasMap /\ ~cr.strictMode =>
        IF cr.recursive THEN stats.errors <= stats.skipped
        ELSE FlatConservation

\* C10 as amended: in the lenient recursive scan the errors exceed the skips
\* by the directories the walk could not read.
StatsConservationAmended ==
    result.returned /\ result.hasMap /\ ~cr.strictMode =>
        IF cr.recursive THEN stats.errors = stats.skipped + Unread
        ELSE FlatConservation

\* a lenient flat scan listed a subdirectory, a file that failed and two
\* files of one name: two processed, two skipped, one error, one entry
StatsConservationWitness ==
    /\ result.returned /\ result.hasMap /\ ~cr.strictMode /\ ~cr.recursive
    /\ stats = [processed |-> 2, skipped |-> 2, errors |-> 1]
    /\ Overwrites = 1
    /\ Cardinality(DOMAIN result.configs) = 1
====
